---- MODULE Spec2Model ----
(***************************************************************************)
(* Model of the pipelined/mp3 adapters: the decode adapter Pump (Pump.Pump *)
(* and the produce closure it returns) and the encode adapter Sink         *)
(* (SetQuality, Sink.Sink, the consume closure, Flush).                    *)
(*                                                                         *)
(* src/mp3.go holds two revisions of Pump.Pump: lines 59-108 (a fixed-size *)
(* ints slice and a sample counter `read`) and lines 279-318 (an appended  *)
(* ints slice and b.Size()); the second is also src/unnamed/part_000       *)
(* lines 100-139.  The variable rev selects the revision a behaviour runs. *)
(*                                                                         *)
(* The external decoder (go-mp3) is a byte stream of interleaved signed    *)
(* 16-bit little-endian stereo PCM: it yields whole stereo frames (4 bytes *)
(* each), then io.EOF on every further read.  Before it has reported       *)
(* io.EOF it may fail once with another error, at any read: a corrupt      *)
(* frame between two frames, a truncated one in the middle of a frame.     *)
(*                                                                         *)
(* The encode adapter is Sink of src/mp3.go:110-157, the same code as      *)
(* src/unnamed/part_000:151-196; the external encoder (lame) is the log of *)
(* the calls made on it.  The two adapters run under their own             *)
(* specifications: Spec for a Pump opened once, ReuseSpec for a Pump whose *)
(* Pump.Pump is called again, SinkSpec for SetQuality and Sink.Sink over   *)
(* every Sink literal, EncodeSpec for the consume closure and Flush of one *)
(* Sink, ConfigSpec for the Supported validators of                        *)
(* src/unnamed/part_000:225-272 next to SetQuality and Sink.Sink,          *)
(* SessionSpec for one encoding session of any Sink literal, and PipeSpec  *)
(* for the two adapters driven as TestMp3 drives them.                     *)
(*                                                                         *)
(* signal.InterInt.AsFloat64 and signal.Float64.AsInterInt belong to the   *)
(* signal package: a float64 is kept as the exact fraction num/den.        *)
(***************************************************************************)
EXTENDS Integers, Sequences, FiniteSets, TLC

\* ---------------------------------------------------------------- bounds
MaxFrames == 4          \* longest decoded stream, in stereo frames
MaxBuf == 3             \* largest bufferSize handed to Pump.Pump
MaxCalls == MaxFrames + 1   \* produce calls on a Pump opened once
MaxOpens == 2           \* Pump.Pump calls on a reused Pump
MaxReuseCalls == 2      \* produce calls on a reused Pump
MaxSinkOpens == 2       \* Sink.Sink calls in one behaviour
MaxSinkCalls == 3       \* consume and Flush calls on one Sink
MaxSinkFrames == 2      \* longest buffer handed to consume, in frames
MaxChecks == 2          \* calls of the Supported validators

\* ------------------------------------------------------ program constants
numChannels == 2        \* "current decoder always provides stereo"
BitDepth16 == 16        \* signal.BitDepth16

Revs == {1, 2}          \* 1: src/mp3.go:59-108   2: src/mp3.go:279-318

Nil == <<>>             \* a nil [][]float64 (no channels)

\* 2^n
RECURSIVE Pow2(_)
Pow2(n) == IF n = 0 THEN 1 ELSE 2 * Pow2(n - 1)

\* ------------------------------------------------------- the PCM streams
\* The sample the decoder yields at index i (1-based): all int16, pairwise
\* distinct, never 0, of both signs, the extremes included.
PCM(i) ==
    IF i % 2 = 1 THEN 32767 - (i - 1) \div 2 ELSE -32768 + (i - 2) \div 2

\* int16 -> its two little-endian bytes (what the decoder hands to Read)
LE16Bytes(v) ==
    LET u == IF v < 0 THEN v + 65536 ELSE v
    IN  <<u % 256, u \div 256>>

\* The decoder's output for f stereo frames: 4*f bytes.
DecoderBytes(f) ==
    [b \in 1..(4 * f) |->
        LE16Bytes(PCM((b + 1) \div 2))[IF b % 2 = 1 THEN 1 ELSE 2]]

\* The error a failing decoder returns at byte offset p.
FailErr(p) ==
    IF p % 4 = 2 THEN "io.ErrUnexpectedEOF" ELSE "mp3: corrupt frame"

VARIABLES
    rev,        \* revision of Pump.Pump in use
    src,        \* bytes the decoder yields over its life
    rate,       \* the decoder's SampleRate()
    failed,     \* the decoder has failed with a non-EOF error
    pos,        \* bytes read from the decoder so far
    d,          \* Pump.d: id of the current decoder, 0 = nil
    decoders,   \* decoders created by mp3.NewDecoder so far
    opens,      \* calls of Pump.Pump so far
    closures,   \* produce closures returned so far
    lastOpen,   \* what the last Pump.Pump returned
    out,        \* what each produce call returned, in call order
    reads,      \* binary.Read calls on the decoder so far
    panicked,   \* a nil dereference has ended the program
    makes,      \* make([]int, ...) calls of the produce closures so far
    mode,       \* Sink.BitRateMode: [tag, val], tag "nil" for a nil interface
    cmode,      \* Sink.ChannelMode
    quality,    \* Sink.quality: <<>> for a nil pointer, <<q>> for &q
    w,          \* Sink.w: id of the current LameWriter, 0 = nil
    writers,    \* LameWriters allocated by lame.NewWriter so far
    encs,       \* per LameWriter, the calls made on its Encoder, in order
    sinkOpens,  \* calls of Sink.Sink so far
    lastSink,   \* what the last Sink.Sink returned, and was configured with
    wcalls,     \* per LameWriter, the Write and Close calls made on it
    sunk,       \* what each consume and Flush call returned, in call order
    news,       \* new(bytes.Buffer) calls of the consume closures so far
    checks      \* what each call of a Supported validator returned

pumpVars == <<rev, src, rate, failed, pos, d,
              decoders, opens, closures, lastOpen, out, reads, panicked,
              makes>>

sinkVars == <<mode, cmode, quality, w, writers, encs, sinkOpens, lastSink,
              wcalls, sunk, news, checks>>

vars == <<pumpVars, sinkVars>>

\* ---------------------------------------------------------- conversions
\* Int16LE with the two bytes taken as an unsigned 16-bit value.
Int16LE_Unsigned(lo, hi) == lo + 256 * hi

\* binary.Read(..., binary.LittleEndian, &val) with val int16
Int16LE(lo, hi) ==
    LET u == lo + 256 * hi
    IN  IF u >= Pow2(15) THEN u - Pow2(16) ELSE u

\* a float64 holding n / den
Float(n, den) == [num |-> n, den |-> den]

CeilDiv(a, b) == (a + b - 1) \div b

\* AsFloat64 without deinterleaving: all samples in one channel.
AsFloat64_OneChannel(data, dataNil, nc, depth) ==
    IF dataNil \/ nc = 0 THEN Nil
    ELSE <<[j \in 1..Len(data) |-> [num |-> data[j], den |-> Pow2(depth - 1)]]>>

\* signal.InterInt{Data, NumChannels, BitDepth}.AsFloat64(): nil for nil
\* data or no channels; else NumChannels channels of ceil(len/NumChannels)
\* values, channel c taking data[c], data[c+NumChannels], ... divided by
\* 2^(BitDepth-1); positions past the data stay 0.
AsFloat64(data, dataNil, nc, depth) ==
    IF dataNil \/ nc = 0 THEN Nil
    ELSE LET bufSize == CeilDiv(Len(data), nc)
         IN  [c \in 1..nc |->
                [j \in 1..bufSize |->
                    LET i == (j - 1) * nc + c
                    IN  IF i <= Len(data)
                        THEN Float(data[i], Pow2(depth - 1))
                        ELSE Float(0, Pow2(depth - 1))]]

\* signal.Float64.Size(): frames in the buffer
Size(b) == IF Len(b) = 0 THEN 0 ELSE Len(b[1])

\* ------------------------------------------------------------ the decoder
\* BinaryRead over a decoder that, when it fails, goes back to where the
\* produce call began: the samples of the call are read again later.
BinaryRead_RewindsOnError(p, hasFailed, failAt) ==
    IF failAt = p
    THEN [err |-> FailErr(p), val |-> 0, pos |-> pos, failed |-> TRUE]
    ELSE IF Len(src) - p = 0
    THEN [err |-> "io.EOF", val |-> 0, pos |-> p, failed |-> hasFailed]
    ELSE IF Len(src) - p = 1
    THEN [err |-> "io.ErrUnexpectedEOF", val |-> 0, pos |-> p + 1,
          failed |-> hasFailed]
    ELSE [err |-> "nil", val |-> Int16LE(src[p + 1], src[p + 2]),
          pos |-> p + 2, failed |-> hasFailed]

\* binary.Read(p.d, binary.LittleEndian, &val) at byte offset p: io.ReadFull
\* of 2 bytes, then little-endian decoding.  failAt is the offset at which
\* the decoder fails in this call, -1 when it does not.
BinaryRead(p, hasFailed, failAt) ==
    IF failAt = p
    THEN [err |-> FailErr(p), val |-> 0, pos |-> p, failed |-> TRUE]
    ELSE IF Len(src) - p = 0
    THEN [err |-> "io.EOF", val |-> 0, pos |-> p, failed |-> hasFailed]
    ELSE IF Len(src) - p = 1
    THEN [err |-> "io.ErrUnexpectedEOF", val |-> 0, pos |-> p + 1,
          failed |-> hasFailed]
    ELSE [err |-> "nil", val |-> Int16LE(src[p + 1], src[p + 2]),
          pos |-> p + 2, failed |-> hasFailed]

\* --------------------------------------------------- the produce closure
\* State of one run of the read loop.
LoopStart(ints, failAt) ==
    [ints |-> ints, read |-> 0, pos |-> pos, failed |-> failed,
     failAt |-> failAt,
     reads |-> 0, exit |-> "full", err |-> "nil", firstErr |-> "none",
     decErr |-> "nil"]

\* The loop state after binary.Read returned r: the decoder has moved, and
\* the call remembers what its first read and its last read reported.
AfterRead(st, r) ==
    [st EXCEPT !.pos = r.pos, !.failed = r.failed, !.reads = @ + 1,
               !.firstErr = IF st.reads = 0 THEN r.err ELSE @,
               !.decErr = r.err]

\* src/mp3.go:77-88: for read < size { binary.Read; EOF: break; other
\* error: return nil, err; ints[read] = int(val); read++ }
RECURSIVE ReadLoop1(_, _)
ReadLoop1(size, st) ==
    IF ~(st.read < size) THEN st
    ELSE LET r == BinaryRead(st.pos, st.failed, st.failAt)
             st1 == AfterRead(st, r)
         IN  IF r.err # "nil"
             THEN IF r.err = "io.EOF"
                  THEN [st1 EXCEPT !.exit = "break"]
                  ELSE [st1 EXCEPT !.exit = "return", !.err = r.err]
             ELSE ReadLoop1(size, [st1 EXCEPT !.ints[st.read + 1] = r.val,
                                              !.read = @ + 1])

\* ReadLoop2 breaking on io.EOF even when nothing was appended.
RECURSIVE ReadLoop2_AlwaysBreak(_, _)
ReadLoop2_AlwaysBreak(capacity, st) ==
    IF ~(Len(st.ints) < capacity) THEN st
    ELSE LET r == BinaryRead(st.pos, st.failed, st.failAt)
             st1 == AfterRead(st, r)
         IN  IF r.err # "nil"
             THEN IF r.err = "io.EOF"
                  THEN [st1 EXCEPT !.exit = "break"]
                  ELSE [st1 EXCEPT !.exit = "return", !.err = r.err]
             ELSE ReadLoop2_AlwaysBreak(capacity,
                        [st1 EXCEPT !.ints = Append(@, r.val),
                                    !.read = @ + 1])

\* ReadLoop2 with every error of the decoder handled as io.EOF is.
RECURSIVE ReadLoop2_AnyErrorIsEOF(_, _)
ReadLoop2_AnyErrorIsEOF(capacity, st) ==
    IF ~(Len(st.ints) < capacity) THEN st
    ELSE LET r == BinaryRead(st.pos, st.failed, st.failAt)
             st1 == AfterRead(st, r)
         IN  IF r.err # "nil"
             THEN IF Len(st.ints) = 0
                  THEN [st1 EXCEPT !.exit = "return", !.err = "io.EOF"]
                  ELSE [st1 EXCEPT !.exit = "break"]
             ELSE ReadLoop2_AnyErrorIsEOF(capacity,
                        [st1 EXCEPT !.ints = Append(@, r.val),
                                    !.read = @ + 1])

\* src/mp3.go:296-309: for len(ints) < capacity { binary.Read; EOF: return
\* nil, io.EOF when nothing was appended, else break; other error: return
\* nil, err; ints = append(ints, int(val)) }
RECURSIVE ReadLoop2(_, _)
ReadLoop2(capacity, st) ==
    IF ~(Len(st.ints) < capacity) THEN st
    ELSE LET r == BinaryRead(st.pos, st.failed, st.failAt)
             st1 == AfterRead(st, r)
         IN  IF r.err # "nil"
             THEN IF r.err = "io.EOF"
                  THEN IF Len(st.ints) = 0
                       THEN [st1 EXCEPT !.exit = "return", !.err = "io.EOF"]
                       ELSE [st1 EXCEPT !.exit = "break"]
                  ELSE [st1 EXCEPT !.exit = "return", !.err = r.err]
             ELSE ReadLoop2(capacity, [st1 EXCEPT !.ints = Append(@, r.val),
                                                  !.read = @ + 1])

\* What one produce call hands back, with the decoder state it leaves.
Returned(st, buf, err) ==
    [buf |-> buf, err |-> err, pos |-> st.pos, failed |-> st.failed,
     reads |-> st.reads, obtained |-> st.read, exit |-> st.exit,
     firstErr |-> st.firstErr, decErr |-> st.decErr]

\* Produce1 without the "nothing was read" return.
Produce1_NoEmptyCheck(bufferSize, failAt) ==
    LET size == bufferSize * numChannels
        st == ReadLoop1(size, LoopStart([i \in 1..size |-> 0], failAt))
    IN  IF st.exit = "return" THEN Returned(st, Nil, st.err)
        ELSE LET b == AsFloat64(SubSeq(st.ints, 1, st.read), FALSE,
                                numChannels, BitDepth16)
             IN  IF st.read # bufferSize
                 THEN Returned(st, b, "io.ErrUnexpectedEOF")
                 ELSE Returned(st, b, "nil")

\* src/mp3.go:72-107, the closure of the first revision.
Produce1(bufferSize, failAt) ==
    LET size == bufferSize * numChannels
        st == ReadLoop1(size, LoopStart([i \in 1..size |-> 0], failAt))
    IN  IF st.exit = "return" THEN Returned(st, Nil, st.err)
        ELSE IF st.read = 0 THEN Returned(st, Nil, "io.EOF")
        ELSE LET b == AsFloat64(SubSeq(st.ints, 1, st.read), FALSE,
                                numChannels, BitDepth16)
             IN  IF st.read # bufferSize
                 THEN Returned(st, b, "io.ErrUnexpectedEOF")
                 ELSE Returned(st, b, "nil")

\* Produce2 giving up the samples of a short read: io.EOF, no buffer.
Produce2_DropsShortRead(bufferSize, failAt) ==
    LET capacity == bufferSize * numChannels
        st == ReadLoop2(capacity, LoopStart(<<>>, failAt))
    IN  IF st.exit = "return" THEN Returned(st, Nil, st.err)
        ELSE IF st.exit = "break" THEN Returned(st, Nil, "io.EOF")
        ELSE LET b == AsFloat64(st.ints, FALSE, numChannels, BitDepth16)
             IN  IF Size(b) # bufferSize
                 THEN Returned(st, b, "io.ErrUnexpectedEOF")
                 ELSE Returned(st, b, "nil")

\* src/mp3.go:291-317 (= src/unnamed/part_000:112-138), the closure of the
\* second revision.
Produce2(bufferSize, failAt) ==
    LET capacity == bufferSize * numChannels
        st == ReadLoop2(capacity, LoopStart(<<>>, failAt))
    IN  IF st.exit = "return" THEN Returned(st, Nil, st.err)
        ELSE LET b == AsFloat64(st.ints, FALSE, numChannels, BitDepth16)
             IN  IF Size(b) # bufferSize
                 THEN Returned(st, b, "io.ErrUnexpectedEOF")
                 ELSE Returned(st, b, "nil")

ProduceFn(bufferSize, failAt) ==
    IF rev = 1 THEN Produce1(bufferSize, failAt)
    ELSE Produce2(bufferSize, failAt)

\* The decoder has reported io.EOF to some call.
DecoderAtEOF == \E i \in 1..Len(out) : out[i].decErr = "io.EOF"

\* One call of produce closure c, in which the decoder fails after e good
\* reads (e = -1: it does not fail).  The closure reads p.d at call time; a
\* nil p.d is dereferenced inside binary.Read as soon as the loop is entered.
Produce(c, e) ==
    /\ ~panicked
    /\ c \in 1..Len(closures)
    /\ Len(out) < MaxCalls
    /\ e # -1 => ~failed /\ ~DecoderAtEOF /\ d # 0
    /\ makes' = makes + 1
    /\ IF d = 0 /\ closures[c].bufferSize > 0
       THEN /\ panicked' = TRUE
            /\ UNCHANGED <<pos, failed, reads, out>>
       ELSE LET r == ProduceFn(closures[c].bufferSize,
                              IF e = -1 THEN -1 ELSE pos + 2 * e)
            IN  /\ e # -1 => r.failed
                /\ pos' = r.pos
                /\ failed' = r.failed
                /\ reads' = reads + r.reads
                /\ out' = Append(out,
                        [closure |-> c, dec |-> d,
                         target |-> closures[c].bufferSize,
                         buf |-> r.buf, err |-> r.err, reads |-> r.reads,
                         obtained |-> r.obtained, exit |-> r.exit,
                         firstErr |-> r.firstErr, decErr |-> r.decErr,
                         from |-> pos, opens |-> opens,
                         closures |-> Len(closures),
                         makes |-> makes + 1])
                /\ UNCHANGED panicked
    /\ UNCHANGED <<rev, src, rate, d, decoders, opens, closures, lastOpen>>
    /\ UNCHANGED sinkVars

\* ------------------------------------------------------------- Pump.Pump
NewDecoderErrors == {"mp3: no frame"}

\* PumpOpen keeping the decoder of an earlier call: a Pump that negotiates
\* once and hands every closure the same decoder.
PumpOpen_Once(bufferSize, newErr) ==
    /\ ~panicked
    /\ opens < MaxOpens
    /\ opens' = opens + 1
    /\ IF newErr # "nil" /\ d = 0
       THEN /\ lastOpen' = [fn |-> 0, sampleRate |-> 0, numChannels |-> 0,
                            err |-> newErr]
            /\ UNCHANGED <<d, decoders, closures>>
       ELSE /\ decoders' = IF d = 0 THEN decoders + 1 ELSE decoders
            /\ d' = IF d = 0 THEN decoders + 1 ELSE d
            /\ closures' = Append(closures,
                    [bufferSize |-> bufferSize, dec |-> d'])
            /\ lastOpen' = [fn |-> Len(closures) + 1, sampleRate |-> rate,
                            numChannels |-> numChannels, err |-> "nil"]
    /\ UNCHANGED <<rev, src, rate, failed, pos, out, reads, panicked,
                   makes>>
    /\ UNCHANGED sinkVars

\* src/mp3.go:59-70 and :279-289.  mp3.NewDecoder(p) wraps the same reader,
\* which this code never repositions, so the new decoder goes on from the
\* bytes not yet read.  On failure the first revision leaves p.d alone
\* (d is a local), the second has already assigned nil to p.d.
PumpOpen(bufferSize, newErr) ==
    /\ ~panicked
    /\ opens < MaxOpens
    /\ opens' = opens + 1
    /\ IF newErr # "nil"
       THEN /\ d' = IF rev = 1 THEN d ELSE 0
            /\ lastOpen' = [fn |-> 0, sampleRate |-> 0, numChannels |-> 0,
                            err |-> newErr]
            /\ UNCHANGED <<decoders, closures>>
       ELSE /\ decoders' = decoders + 1
            /\ d' = decoders + 1
            /\ closures' = Append(closures,
                    [bufferSize |-> bufferSize, dec |-> decoders + 1])
            /\ lastOpen' = [fn |-> Len(closures) + 1, sampleRate |-> rate,
                            numChannels |-> numChannels, err |-> "nil"]
    /\ UNCHANGED <<rev, src, rate, failed, pos, out, reads, panicked,
                   makes>>
    /\ UNCHANGED sinkVars

\* ------------------------------------------------------ the decode machine
\* A Pump literal before Pump.Pump, nothing read yet.
PumpNew ==
    /\ failed = FALSE
    /\ pos = 0
    /\ d = 0
    /\ decoders = 0
    /\ opens = 0
    /\ closures = <<>>
    /\ lastOpen = [fn |-> 0, sampleRate |-> 0, numChannels |-> 0,
                   err |-> "nil"]
    /\ out = <<>>
    /\ reads = 0
    /\ panicked = FALSE
    /\ makes = 0

\* The streams decoded: f frames, at a sample rate that goes with f.
StreamRate(f) == IF f % 2 = 0 THEN 44100 ELSE 48000

PumpInit ==
    /\ rev \in Revs
    /\ \E f \in 0..MaxFrames :
            /\ src = DecoderBytes(f)
            /\ rate = StreamRate(f)
    /\ PumpNew

\* A Pump used as its comment asks ("cannot be reused for consequent
\* runs"): Pump.Pump once, then the closure it returned.
PumpNext ==
    \/ \E n \in 0..MaxBuf : \E e \in {"nil"} \cup NewDecoderErrors :
            opens = 0 /\ PumpOpen(n, e)
    \/ \E e \in -1..(MaxBuf * numChannels - 1) : Produce(1, e)

\* A Pump reused: Pump.Pump again at any time, every closure still
\* callable, over a decoder that fails in mp3.NewDecoder only.
ReuseNext ==
    \/ \E n \in 0..MaxBuf : \E e \in {"nil"} \cup NewDecoderErrors :
            PumpOpen(n, e)
    \/ \E c \in 1..MaxOpens : Len(out) < MaxReuseCalls /\ Produce(c, -1)

\* ------------------------------------------------------ the encode adapter
Mono == 0
Stereo == 1
JointStereo == 2

MinBitRate == 8
MaxBitRate == 320

\* Supported.channelModes
SupportedChannelModes == {JointStereo, Stereo, Mono}

\* supported.ChannelMode taking every non-negative value as supported.
SupportedChannelMode_NonNegative(v) ==
    IF v < 0 THEN "Channel mode is not supported" ELSE "nil"

\* supported.ChannelMode
SupportedChannelMode(v) ==
    IF v \notin SupportedChannelModes
    THEN "Channel mode is not supported" ELSE "nil"

\* supported.Quality
SupportedQuality(v) ==
    IF v < 0 \/ v > 9 THEN "Quality is not supported" ELSE "nil"

\* supported.vbrQuality
vbrQuality(v) ==
    IF v < 0 \/ v > 9 THEN "VBR quality is not supported" ELSE "nil"

\* supported.bitRate with the two bounds excluded.
bitRate_Exclusive(v) ==
    IF v >= MaxBitRate \/ v <= MinBitRate
    THEN "Bit rate is not supported" ELSE "nil"

\* supported.bitRate
bitRate(v) ==
    IF v > MaxBitRate \/ v < MinBitRate
    THEN "Bit rate is not supported" ELSE "nil"

\* supported.BitRateMode
SupportedBitRateMode(v) ==
    CASE v.tag = "VBR" -> vbrQuality(v.val)
      [] v.tag = "CBR" -> bitRate(v.val)
      [] v.tag = "ABR" -> bitRate(v.val)
      [] OTHER -> "Bit rate mode is not supported"

\* The configuration of the revision with an integer bit-rate mode
\* (src/unnamed/part_003:150-158): the selector by mode, then SetBitrate and
\* SetVBRQuality whatever the mode.
Apply_SelectorThenAll(m) ==
    <<<<"SetVBR", CASE m.tag = "VBR" -> "VBR_MTRH"
                    [] m.tag = "ABR" -> "VBR_ABR"
                    [] OTHER -> "VBR_OFF">>,
      <<"SetBitrate", m.val>>,
      <<"SetVBRQuality", m.val>>>>

\* VBR.apply, ABR.apply, CBR.apply
Apply(m) ==
    CASE m.tag = "VBR" -> <<<<"SetVBR", "VBR_MTRH">>,
                            <<"SetVBRQuality", m.val>>>>
      [] m.tag = "ABR" -> <<<<"SetVBR", "VBR_ABR">>,
                            <<"SetVBRAverageBitRate", m.val>>>>
      [] m.tag = "CBR" -> <<<<"SetVBR", "VBR_OFF">>,
                            <<"SetBitrate", m.val>>>>

\* setChannelMode with a default case that sets STEREO.
SetChannelMode_DefaultStereo(cm) ==
    CASE cm = JointStereo -> <<<<"SetMode", "JOINT_STEREO">>>>
      [] cm = Mono -> <<<<"SetMode", "MONO">>>>
      [] OTHER -> <<<<"SetMode", "STEREO">>>>

\* setChannelMode: a switch without default
SetChannelMode(cm) ==
    CASE cm = JointStereo -> <<<<"SetMode", "JOINT_STEREO">>>>
      [] cm = Stereo -> <<<<"SetMode", "STEREO">>>>
      [] cm = Mono -> <<<<"SetMode", "MONO">>>>
      [] OTHER -> <<>>

\* Sink.SetQuality: s.quality = &q
SetQuality(q) ==
    /\ ~panicked
    /\ quality' = <<q>>
    /\ UNCHANGED <<mode, cmode, w, writers, encs, sinkOpens, lastSink,
                   wcalls, sunk, news, checks, panicked>>
    /\ UNCHANGED pumpVars

\* SinkOpen checking the configuration with the Supported predicates
\* before lame.NewWriter, and returning their error.
SinkOpen_Validating(sampleRate, nch) ==
    /\ ~panicked
    /\ sinkOpens < MaxSinkOpens
    /\ sinkOpens' = sinkOpens + 1
    /\ IF \/ SupportedBitRateMode(mode) # "nil"
          \/ SupportedChannelMode(cmode) # "nil"
       THEN /\ lastSink' = [fn |-> 0, err |-> "ConfigError",
                            mode |-> mode, cmode |-> cmode,
                            quality |-> quality]
            /\ UNCHANGED <<w, writers, encs, wcalls>>
       ELSE /\ writers' = writers + 1
            /\ w' = writers + 1
            /\ wcalls' = Append(wcalls, <<>>)
            /\ encs' = Append(encs,
                    Apply(mode)
                    \o (IF quality # <<>>
                        THEN <<<<"SetQuality", quality[1]>>>> ELSE <<>>)
                    \o SetChannelMode(cmode)
                    \o <<<<"SetInSamplerate", sampleRate>>,
                         <<"SetNumChannels", nch>>,
                         <<"InitParams">>>>)
            /\ lastSink' = [fn |-> writers + 1, err |-> "nil",
                            mode |-> mode, cmode |-> cmode,
                            quality |-> quality]
    /\ UNCHANGED <<mode, cmode, quality, sunk, news, checks, panicked>>
    /\ UNCHANGED <<rev, src, rate, failed, pos, d, decoders, opens,
                   closures, lastOpen, out, reads, makes>>

\* SinkOpen refusing a Sink on which SetQuality was called.
SinkOpen_RejectsQuality(sampleRate, nch) ==
    /\ ~panicked
    /\ sinkOpens < MaxSinkOpens
    /\ sinkOpens' = sinkOpens + 1
    /\ writers' = writers + 1
    /\ w' = writers + 1
    /\ wcalls' = Append(wcalls, <<>>)
    /\ IF mode.tag = "nil"
       THEN /\ panicked' = TRUE
            /\ encs' = Append(encs, <<>>)
            /\ UNCHANGED lastSink
       ELSE /\ encs' = Append(encs, Apply(mode))
            /\ lastSink' = [fn |-> IF quality # <<>> THEN 0 ELSE writers + 1,
                            err |-> IF quality # <<>>
                                    THEN "quality is not supported"
                                    ELSE "nil",
                            mode |-> mode, cmode |-> cmode,
                            quality |-> quality]
            /\ UNCHANGED panicked
    /\ UNCHANGED <<mode, cmode, quality, sunk, news, checks>>
    /\ UNCHANGED <<rev, src, rate, failed, pos, d, decoders, opens,
                   closures, lastOpen, out, reads, makes>>

\* SinkOpen handing the quality to the encoder clamped to [0, 9].
SinkOpen_ClampsQuality(sampleRate, nch) ==
    /\ ~panicked
    /\ sinkOpens < MaxSinkOpens
    /\ sinkOpens' = sinkOpens + 1
    /\ writers' = writers + 1
    /\ w' = writers + 1
    /\ wcalls' = Append(wcalls, <<>>)
    /\ IF mode.tag = "nil"
       THEN /\ panicked' = TRUE
            /\ encs' = Append(encs, <<>>)
            /\ UNCHANGED lastSink
       ELSE /\ encs' = Append(encs,
                    Apply(mode)
                    \o (IF quality # <<>>
                        THEN <<<<"SetQuality",
                                 IF quality[1] < 0 THEN 0
                                 ELSE IF quality[1] > 9 THEN 9
                                 ELSE quality[1]>>>>
                        ELSE <<>>)
                    \o SetChannelMode(cmode)
                    \o <<<<"SetInSamplerate", sampleRate>>,
                         <<"SetNumChannels", nch>>,
                         <<"InitParams">>>>)
            /\ lastSink' = [fn |-> writers + 1, err |-> "nil",
                            mode |-> mode, cmode |-> cmode,
                            quality |-> quality]
            /\ UNCHANGED panicked
    /\ UNCHANGED <<mode, cmode, quality, sunk, news, checks>>
    /\ UNCHANGED <<rev, src, rate, failed, pos, d, decoders, opens,
                   closures, lastOpen, out, reads, makes>>

\* SinkOpen with a default quality: the encoder's SetQuality is called on
\* every open, with 5 when Sink.SetQuality was not called.
SinkOpen_DefaultQuality(sampleRate, nch) ==
    /\ ~panicked
    /\ sinkOpens < MaxSinkOpens
    /\ sinkOpens' = sinkOpens + 1
    /\ writers' = writers + 1
    /\ w' = writers + 1
    /\ wcalls' = Append(wcalls, <<>>)
    /\ IF mode.tag = "nil"
       THEN /\ panicked' = TRUE
            /\ encs' = Append(encs, <<>>)
            /\ UNCHANGED lastSink
       ELSE /\ encs' = Append(encs,
                    Apply(mode)
                    \o <<<<"SetQuality",
                           IF quality # <<>> THEN quality[1] ELSE 5>>>>
                    \o SetChannelMode(cmode)
                    \o <<<<"SetInSamplerate", sampleRate>>,
                         <<"SetNumChannels", nch>>,
                         <<"InitParams">>>>)
            /\ lastSink' = [fn |-> writers + 1, err |-> "nil",
                            mode |-> mode, cmode |-> cmode,
                            quality |-> quality]
            /\ UNCHANGED panicked
    /\ UNCHANGED <<mode, cmode, quality, sunk, news, checks>>
    /\ UNCHANGED <<rev, src, rate, failed, pos, d, decoders, opens,
                   closures, lastOpen, out, reads, makes>>

\* Sink.Sink: lame.NewWriter first, then the configuration calls and
\* InitParams, then the consume closure with a nil error.  Calling apply on
\* a nil BitRateMode interface panics, the writer already allocated.
SinkOpen(sampleRate, nch) ==
    /\ ~panicked
    /\ sinkOpens < MaxSinkOpens
    /\ sinkOpens' = sinkOpens + 1
    /\ writers' = writers + 1
    /\ w' = writers + 1
    /\ wcalls' = Append(wcalls, <<>>)
    /\ IF mode.tag = "nil"
       THEN /\ panicked' = TRUE
            /\ encs' = Append(encs, <<>>)
            /\ UNCHANGED lastSink
       ELSE /\ encs' = Append(encs,
                    Apply(mode)
                    \o (IF quality # <<>>
                        THEN <<<<"SetQuality", quality[1]>>>> ELSE <<>>)
                    \o SetChannelMode(cmode)
                    \o <<<<"SetInSamplerate", sampleRate>>,
                         <<"SetNumChannels", nch>>,
                         <<"InitParams">>>>)
            /\ lastSink' = [fn |-> writers + 1, err |-> "nil",
                            mode |-> mode, cmode |-> cmode,
                            quality |-> quality]
            /\ UNCHANGED panicked
    /\ UNCHANGED <<mode, cmode, quality, sunk, news, checks>>
    /\ UNCHANGED <<rev, src, rate, failed, pos, d, decoders, opens,
                   closures, lastOpen, out, reads, makes>>

\* ------------------------------------------------------ the two machines
\* The values a test or a caller puts into the Sink literal.
BitRates == {MinBitRate - 1, MinBitRate, MaxBitRate, MaxBitRate + 1}
Qualities == {-1, 0, 9, 10}
BitRateModes ==
    {[tag |-> "nil", val |-> 0]}
    \cup {[tag |-> t, val |-> r] : t \in {"CBR", "ABR"}, r \in BitRates}
    \cup {[tag |-> "VBR", val |-> q] : q \in Qualities}
ChannelModes == {-1, Mono, Stereo, JointStereo, 3}
SampleRates == {44100, 48000}

\* A Sink literal before Sink.Sink: quality and w are nil.
SinkNew ==
    /\ quality = <<>>
    /\ w = 0
    /\ writers = 0
    /\ encs = <<>>
    /\ sinkOpens = 0
    /\ lastSink = [fn |-> 0, err |-> "nil", mode |-> mode, cmode |-> cmode,
                   quality |-> <<>>]
    /\ wcalls = <<>>
    /\ sunk = <<>>
    /\ news = 0
    /\ checks = <<>>

Init ==
    /\ PumpInit
    /\ mode = [tag |-> "CBR", val |-> MaxBitRate]
    /\ cmode = JointStereo
    /\ SinkNew

Spec == Init /\ [][PumpNext]_vars

ReuseSpec == Init /\ [][ReuseNext]_vars

SinkInit ==
    /\ rev = 1
    /\ src = <<>>
    /\ rate = 44100
    /\ PumpNew
    /\ mode \in BitRateModes
    /\ cmode \in ChannelModes
    /\ SinkNew

SinkNext ==
    \/ \E q \in Qualities : SetQuality(q)
    \/ \E sr \in SampleRates : \E n \in 1..2 : SinkOpen(sr, n)

SinkSpec == SinkInit /\ [][SinkNext]_vars

\* ---------------------------------------------------- the consume closure
\* int(f) for a float64 f = n/den: truncation toward zero.
Trunc(n, den) == IF n >= 0 THEN n \div den ELSE -((-n) \div den)

\* int16(v) for an int v: the low 16 bits of v, read as a signed value.
Int16(v) ==
    LET u == v % Pow2(16)
    IN  IF u >= Pow2(15) THEN u - Pow2(16) ELSE u

\* AsInterInt without interleaving: channel after channel.
AsInterInt_Planar(b, depth) ==
    IF Len(b) = 0 THEN <<>>
    ELSE [k \in 1..(Len(b[1]) * Len(b)) |->
            LET c == ((k - 1) \div Len(b[1])) + 1
                f == ((k - 1) % Len(b[1])) + 1
            IN  Trunc(b[c][f].num * Pow2(depth - 1), b[c][f].den)]

\* signal.Float64(b).AsInterInt(bitDepth, false): nil for a buffer without
\* channels; else len(b[0]) * channels ints, the sample of frame f and
\* channel c at f*channels + c, each int(sample * 2^(bitDepth-1)).
AsInterInt(b, depth) ==
    IF Len(b) = 0 THEN <<>>
    ELSE [k \in 1..(Len(b[1]) * Len(b)) |->
            LET c == ((k - 1) % Len(b)) + 1
                f == ((k - 1) \div Len(b)) + 1
            IN  Trunc(b[c][f].num * Pow2(depth - 1), b[c][f].den)]

\* The loop over ints: binary.Write(buf, binary.LittleEndian, int16(ints[i]))
\* appends the two little-endian bytes of the narrowed value to buf.
RECURSIVE BinaryWrite(_)
BinaryWrite(ints) ==
    IF Len(ints) = 0 THEN <<>>
    ELSE LE16Bytes(Int16(ints[1])) \o BinaryWrite(Tail(ints))

\* Close calls made so far on LameWriter i.
Closes(i) == Cardinality({k \in 1..Len(wcalls[i]) : wcalls[i][k].op = "Close"})

\* Consume keeping its bytes.Buffer between calls: a new one only when the
\* frame count differs from that of the consume call before.
Consume_ReusesBuffer(c, b, werr) ==
    /\ ~panicked
    /\ c \in 1..sinkOpens
    /\ LET ints == AsInterInt(b, BitDepth16)
           bytes == BinaryWrite(ints)
           same == /\ Len(sunk) >= 1
                   /\ sunk[Len(sunk)].op = "consume"
                   /\ Size(sunk[Len(sunk)].buf) = Size(b)
           n == IF same THEN news ELSE news + 1
       IN  /\ news' = n
           /\ wcalls' = [wcalls EXCEPT ![w] =
                    Append(@, [op |-> "Write", bytes |-> bytes, err |-> werr,
                               call |-> Len(sunk) + 1])]
           /\ sunk' = Append(sunk,
                    [op |-> "consume", closure |-> c, w |-> w, buf |-> b,
                     ints |-> ints, err |-> werr, news |-> n,
                     closes |-> Closes(w)])
    /\ UNCHANGED <<mode, cmode, quality, w, writers, encs, sinkOpens,
                   lastSink, checks>>
    /\ UNCHANGED pumpVars

\* Consume refusing to write once the LameWriter was closed.
Consume_ClosedGuard(c, b, werr) ==
    /\ ~panicked
    /\ c \in 1..sinkOpens
    /\ news' = news + 1
    /\ LET ints == AsInterInt(b, BitDepth16)
           bytes == BinaryWrite(ints)
       IN  /\ wcalls' = IF Closes(w) >= 1 THEN wcalls
                         ELSE [wcalls EXCEPT ![w] =
                                Append(@, [op |-> "Write", bytes |-> bytes,
                                           err |-> werr,
                                           call |-> Len(sunk) + 1])]
           /\ sunk' = Append(sunk,
                    [op |-> "consume", closure |-> c, w |-> w, buf |-> b,
                     ints |-> ints,
                     err |-> IF Closes(w) >= 1 THEN "ErrClosedStream"
                             ELSE werr,
                     news |-> news + 1, closes |-> Closes(w)])
    /\ UNCHANGED <<mode, cmode, quality, w, writers, encs, sinkOpens,
                   lastSink, checks>>
    /\ UNCHANGED pumpVars

\* One call of the consume closure returned by the c-th Sink.Sink, on buffer
\* b, in which the LameWriter's Write returns werr.  The closure makes a new
\* bytes.Buffer, fills it, and hands its bytes to s.w (read at call time) in
\* one Write, whose error it returns.
Consume(c, b, werr) ==
    /\ ~panicked
    /\ c \in 1..sinkOpens
    /\ news' = news + 1
    /\ LET ints == AsInterInt(b, BitDepth16)
           bytes == BinaryWrite(ints)
       IN  /\ wcalls' = [wcalls EXCEPT ![w] =
                    Append(@, [op |-> "Write", bytes |-> bytes, err |-> werr,
                               call |-> Len(sunk) + 1])]
           /\ sunk' = Append(sunk,
                    [op |-> "consume", closure |-> c, w |-> w, buf |-> b,
                     ints |-> ints, err |-> werr, news |-> news + 1,
                     closes |-> Closes(w)])
    /\ UNCHANGED <<mode, cmode, quality, w, writers, encs, sinkOpens,
                   lastSink, checks>>
    /\ UNCHANGED pumpVars

\* Flush closing the LameWriter at most once: a second call returns
\* ErrClosedStream and leaves the writer alone.
Flush_Once(cerr) ==
    /\ ~panicked
    /\ IF w = 0
       THEN /\ panicked' = TRUE
            /\ UNCHANGED <<wcalls, sunk>>
       ELSE /\ wcalls' = IF Closes(w) >= 1 THEN wcalls
                         ELSE [wcalls EXCEPT ![w] =
                                Append(@, [op |-> "Close", bytes |-> <<>>,
                                           err |-> cerr,
                                           call |-> Len(sunk) + 1])]
            /\ sunk' = Append(sunk,
                    [op |-> "flush", closure |-> 0, w |-> w, buf |-> Nil,
                     ints |-> <<>>,
                     err |-> IF Closes(w) >= 1 THEN "ErrClosedStream"
                             ELSE cerr,
                     news |-> news, closes |-> Closes(w)])
            /\ UNCHANGED panicked
    /\ UNCHANGED <<mode, cmode, quality, w, writers, encs, sinkOpens,
                   lastSink, news, checks>>
    /\ UNCHANGED <<rev, src, rate, failed, pos, d, decoders, opens,
                   closures, lastOpen, out, reads, makes>>

\* Sink.Flush: return s.w.Close().  On a Sink never opened s.w is nil and
\* Close dereferences it.  cerr is what the LameWriter's Close returns.
Flush(cerr) ==
    /\ ~panicked
    /\ IF w = 0
       THEN /\ panicked' = TRUE
            /\ UNCHANGED <<wcalls, sunk>>
       ELSE /\ wcalls' = [wcalls EXCEPT ![w] =
                    Append(@, [op |-> "Close", bytes |-> <<>>, err |-> cerr,
                               call |-> Len(sunk) + 1])]
            /\ sunk' = Append(sunk,
                    [op |-> "flush", closure |-> 0, w |-> w, buf |-> Nil,
                     ints |-> <<>>, err |-> cerr, news |-> news,
                     closes |-> Closes(w)])
            /\ UNCHANGED panicked
    /\ UNCHANGED <<mode, cmode, quality, w, writers, encs, sinkOpens,
                   lastSink, news, checks>>
    /\ UNCHANGED <<rev, src, rate, failed, pos, d, decoders, opens,
                   closures, lastOpen, out, reads, makes>>

\* ------------------------------------------------------ the encode machine
\* Samples handed to consume: full scale, inside and outside [-1, 1].
Samples ==
    <<Float(-3, 2), Float(1, 1), Float(-1, 1), Float(1, 2), Float(-1, 4),
      Float(2, 1)>>

\* A buffer of c channels and f frames whose samples, frame by frame, are
\* Samples from index k on.
Buffer(c, f, k) ==
    [ch \in 1..c |->
        [i \in 1..f |-> Samples[((k + (i - 1) * c + ch - 1) % Len(Samples)) + 1]]]

\* The buffers a caller hands to consume; nil is what the produce closure
\* returns with io.EOF.
Buffers ==
    {Nil} \cup {Buffer(c, f, f) : c \in 1..2, f \in 0..MaxSinkFrames}

\* What the LameWriter's Write and Close can return.
WriterErrors == {"nil", "write failed"}

EncodeInit ==
    /\ rev = 1
    /\ src = <<>>
    /\ rate = 44100
    /\ PumpNew
    /\ mode = [tag |-> "CBR", val |-> MaxBitRate]
    /\ cmode = JointStereo
    /\ SinkNew

\* A Sink opened at most once, its closure and Flush called in any order.
EncodeNext ==
    \/ sinkOpens = 0 /\ SinkOpen(44100, numChannels)
    \/ \E b \in Buffers : \E e \in WriterErrors :
            Len(sunk) < MaxSinkCalls /\ Consume(1, b, e)
    \/ \E e \in WriterErrors : Len(sunk) < MaxSinkCalls /\ Flush(e)

EncodeSpec == EncodeInit /\ [][EncodeNext]_vars

\* ------------------------------------------------------- one encode session
\* The buffers of a session: one frame, mono or stereo.
SessionBuffers == {Buffer(c, 1, 1) : c \in 1..2}

\* Any Sink literal, as in SinkInit.
SessionInit ==
    /\ rev = 1
    /\ src = <<>>
    /\ rate = 44100
    /\ PumpNew
    /\ mode \in BitRateModes
    /\ cmode \in ChannelModes
    /\ SinkNew

\* One session on it: SetQuality before Sink.Sink, Sink.Sink once, then the
\* consume closure and Flush.
SessionNext ==
    \/ \E q \in Qualities : sinkOpens = 0 /\ SetQuality(q)
    \/ \E sr \in SampleRates : sinkOpens = 0 /\ SinkOpen(sr, numChannels)
    \/ \E b \in SessionBuffers :
            Len(sunk) < MaxSinkCalls /\ Consume(1, b, "nil")
    \/ Len(sunk) < MaxSinkCalls /\ Flush("nil")

SessionSpec == SessionInit /\ [][SessionNext]_vars

\* ------------------------------------------------------------ the pipeline
\* Pump and Sink run as TestMp3 runs them: Pump.Pump, Sink.Sink with the
\* sample rate and channels Pump.Pump reported, then
\*     for err == nil { buf, err = pumpFn(); _ = sinkFn(buf) }
\* and Flush after the loop.
PipeNext ==
    \/ \E n \in 0..MaxBuf : \E e \in {"nil"} \cup NewDecoderErrors :
            opens = 0 /\ PumpOpen(n, e)
    \/ /\ opens = 1 /\ lastOpen.err = "nil" /\ sinkOpens = 0
       /\ SinkOpen(lastOpen.sampleRate, lastOpen.numChannels)
    \/ /\ sinkOpens = 1 /\ Len(sunk) = Len(out)
       /\ IF Len(out) = 0 THEN TRUE ELSE out[Len(out)].err = "nil"
       /\ Produce(1, -1)
    \/ \E e \in WriterErrors :
            /\ Len(sunk) < Len(out)
            /\ Consume(1, out[Len(out)].buf, e)
    \/ \E e \in WriterErrors :
            /\ Len(out) >= 1 /\ out[Len(out)].err # "nil"
            /\ Len(sunk) = Len(out)
            /\ Flush(e)

PipeSpec == Init /\ [][PipeNext]_vars

\* --------------------------------------------------- the Supported checks
\* One call of Supported.ChannelMode, Supported.BitRateMode or
\* Supported.Quality: pure functions of their argument, Sink untouched.
CheckChannelMode(v) ==
    /\ checks' = Append(checks, [fn |-> "ChannelMode", arg |-> v,
                                 res |-> SupportedChannelMode(v)])
    /\ UNCHANGED <<mode, cmode, quality, w, writers, encs, sinkOpens,
                   lastSink, wcalls, sunk, news>>
    /\ UNCHANGED pumpVars

CheckBitRateMode(v) ==
    /\ checks' = Append(checks, [fn |-> "BitRateMode", arg |-> v,
                                 res |-> SupportedBitRateMode(v)])
    /\ UNCHANGED <<mode, cmode, quality, w, writers, encs, sinkOpens,
                   lastSink, wcalls, sunk, news>>
    /\ UNCHANGED pumpVars

CheckQuality(v) ==
    /\ checks' = Append(checks, [fn |-> "Quality", arg |-> v,
                                 res |-> SupportedQuality(v)])
    /\ UNCHANGED <<mode, cmode, quality, w, writers, encs, sinkOpens,
                   lastSink, wcalls, sunk, news>>
    /\ UNCHANGED pumpVars

\* The arguments of the checks: those of the Sink literals, the values of
\* TestSinkBuilder (1000), and a BitRateMode that is none of VBR, CBR, ABR.
CheckedChannelModes == ChannelModes \cup {1000}
CheckedBitRateModes == BitRateModes \cup {[tag |-> "other", val |-> 0]}
CheckedQualities == Qualities \cup {1000}

\* A caller that checks values with Supported, sets the quality and opens
\* the Sink once, in any order.
ConfigNext ==
    \/ \E v \in CheckedChannelModes :
            Len(checks) < MaxChecks /\ CheckChannelMode(v)
    \/ \E v \in CheckedBitRateModes :
            Len(checks) < MaxChecks /\ CheckBitRateMode(v)
    \/ \E v \in CheckedQualities :
            Len(checks) < MaxChecks /\ CheckQuality(v)
    \/ \E q \in Qualities : sinkOpens = 0 /\ SetQuality(q)
    \/ sinkOpens = 0 /\ SinkOpen(44100, numChannels)

ConfigSpec == EncodeInit /\ [][ConfigNext]_vars

\* ===================================================== decode properties
Calls == 1..Len(out)

\* stereo frames in the decoded stream
TotalFrames == Len(src) \div (2 * numChannels)

\* The float the decoder's i-th sample must become: PCM / 32768.
ExpectedSample(i) == Float(PCM(i), 32768)

\* A buffer laid out again as the decoder's interleaved sample order.
Interleaved(b) ==
    IF Len(b) = 0 THEN <<>>
    ELSE [i \in 1..(Len(b) * Len(b[1])) |->
            b[((i - 1) % Len(b)) + 1][((i - 1) \div Len(b)) + 1]]

\* Every sample delivered by the first n produce calls, in delivery order.
RECURSIVE Delivered(_)
Delivered(n) ==
    IF n = 0 THEN <<>> ELSE Delivered(n - 1) \o Interleaved(out[n].buf)

RECURSIVE FramesDelivered(_)
FramesDelivered(n) ==
    IF n = 0 THEN 0 ELSE FramesDelivered(n - 1) + Size(out[n].buf)

\* One decode session: Pump.Pump was called once and succeeded, and the
\* decoder has reported no error other than end of input.
OneSession == opens = 1 /\ Len(closures) = 1 /\ ~failed /\ ~panicked

SessionSize == closures[1].bufferSize

\* Call i handed back a short buffer or EndOfStream.
Exhausting(i) ==
    \/ out[i].err = "io.EOF"
    \/ out[i].buf # Nil /\ Size(out[i].buf) < out[i].target

\* C1: with request size N >= 1 over F >= 1 frames, the first ceil(F/N)
\* produce calls return buffers (none is io.EOF), all of N frames but the
\* last, which holds F mod N frames (N when N divides F), and the call
\* after them returns io.EOF, the first one of the session.
C1_BufferCount ==
    (OneSession /\ SessionSize >= 1 /\ TotalFrames >= 1) =>
        LET N == SessionSize
            F == TotalFrames
            K == CeilDiv(F, N)
        IN  \A i \in Calls :
              /\ i < K => /\ out[i].err # "io.EOF"
                          /\ Size(out[i].buf) = N
              /\ i = K => /\ out[i].err # "io.EOF"
                          /\ Size(out[i].buf) =
                                IF F % N = 0 THEN N ELSE F % N
              /\ i > K => /\ out[i].err = "io.EOF"
                          /\ out[i].buf = Nil

C1_Witness ==
    /\ OneSession /\ SessionSize >= 1 /\ TotalFrames >= 1
    /\ TotalFrames % SessionSize # 0
    /\ Len(out) = CeilDiv(TotalFrames, SessionSize) + 1
    /\ out[Len(out)].err = "io.EOF"
    /\ Len(out) >= 3

\* C2: a produce call that obtained all targetFrameCount * channelCount
\* samples returns its buffer with a nil error, and io.ErrUnexpectedEOF
\* comes only from a call that obtained fewer.
C2_FullBufferNoError ==
    \A i \in Calls :
        out[i].target >= 1 =>
          /\ out[i].obtained = out[i].target * numChannels =>
                out[i].err = "nil" /\ out[i].buf # Nil
          /\ out[i].err = "io.ErrUnexpectedEOF" =>
                out[i].obtained < out[i].target * numChannels

\* C3 as claimed: once a call handed back a short buffer or EndOfStream,
\* every later call returns EndOfStream without a read on the decoder.
C3_NoReadAfterExhausted ==
    \A i, j \in Calls :
        (i < j /\ out[j].opens = 1 /\ out[j].target >= 1 /\ Exhausting(i)) =>
            out[j].err = "io.EOF" /\ out[j].reads = 0

\* C3 as amended: on a Pump opened once with bufferSize >= 1, once a call
\* handed back a short buffer or EndOfStream, every later call returns
\* io.EOF with a nil buffer, after exactly one read on the decoder, made at
\* the end of its input and answered with io.EOF.
C3_EndOfStreamAfterOneRead ==
    \A i, j \in Calls :
        (i < j /\ out[j].opens = 1 /\ out[j].target >= 1 /\ Exhausting(i)) =>
            /\ out[j].err = "io.EOF"
            /\ out[j].buf = Nil
            /\ out[j].reads = 1
            /\ out[j].from = Len(src)
            /\ out[j].firstErr = "io.EOF"

C3_Witness ==
    \E i, j \in Calls :
        /\ i < j /\ out[j].opens = 1 /\ out[j].target >= 1
        /\ out[i].buf # Nil /\ Size(out[i].buf) < out[i].target
        /\ \E k \in Calls : k > j /\ out[k].opens = 1

\* C4: a call that ran out of data after k samples, 0 < k < target * 2,
\* returns exactly those k samples, deinterleaved, and nothing else, with
\* the short-read signal io.ErrUnexpectedEOF.
C4_ValidPrefixAndExhausted ==
    \A i \in Calls :
        (/\ out[i].exit = "break"
         /\ 0 < out[i].obtained
         /\ out[i].obtained < out[i].target * numChannels) =>
            /\ Interleaved(out[i].buf) =
                  [n \in 1..out[i].obtained |->
                        ExpectedSample(out[i].from \div 2 + n)]
            /\ out[i].err = "io.ErrUnexpectedEOF"

\* C5: a call whose first decoder read reports io.EOF returns io.EOF with a
\* nil buffer.
C5_EmptyReadIsEndOfStream ==
    \A i \in Calls :
        out[i].firstErr = "io.EOF" =>
            out[i].err = "io.EOF" /\ out[i].buf = Nil

C5_Witness ==
    \E i \in Calls :
        out[i].firstErr = "io.EOF" /\ out[i].target >= 1 /\ Len(src) > 0

\* C6: an error of the decoder other than io.EOF is returned as it is, with
\* a nil buffer.
C6_DecoderErrorPropagates ==
    \A i \in Calls :
        out[i].decErr \notin {"nil", "io.EOF"} =>
            /\ out[i].err = out[i].decErr
            /\ out[i].err = FailErr(out[i].from + 2 * out[i].obtained)
            /\ out[i].buf = Nil

C6_Witness ==
    \E i \in Calls :
        /\ out[i].decErr \notin {"nil", "io.EOF"}
        /\ out[i].obtained > 0
        /\ out[i].from + 2 * out[i].obtained = Len(src)

\* C7: in a session without decoder error the buffers returned so far hold
\* exactly the samples read so far, in decoder order, and once the decoder
\* has reported io.EOF their frame counts add up to the stream's frame
\* count.
C7_NoSampleLostOrDuplicated ==
    OneSession =>
        /\ Delivered(Len(out)) =
              [n \in 1..(pos \div 2) |-> ExpectedSample(n)]
        /\ (\E i \in Calls : out[i].decErr = "io.EOF") =>
              /\ FramesDelivered(Len(out)) = TotalFrames
              /\ pos = Len(src)

C7_Witness ==
    /\ OneSession
    /\ TotalFrames = MaxFrames
    /\ \E i \in Calls : out[i].decErr = "io.EOF"
    /\ \E i, j \in Calls :
            i < j /\ out[i].buf # Nil /\ out[j].buf # Nil
                  /\ Size(out[i].buf) # Size(out[j].buf)

\* C8 as claimed: a Pump creates one decoder at most, and every produce
\* closure reads from the decoder that was created when it was returned.
C8_SingleDecoder ==
    /\ decoders <= 1
    /\ \A i \in Calls : out[i].dec = closures[out[i].closure].dec

\* C8 as amended: every successful Pump.Pump call creates a further decoder
\* and stores it in p.d, and every produce closure reads from the decoder
\* of the latest successful call, whichever call returned the closure.
C8_DecoderPerOpen ==
    /\ decoders = Len(closures)
    /\ \A c \in 1..Len(closures) : closures[c].dec = c
    /\ d \in {0, decoders}
    /\ (opens >= 1 /\ lastOpen.err = "nil") => d = decoders
    /\ \A i \in Calls :
          out[i].target >= 1 => out[i].dec = out[i].closures

C8_Witness ==
    /\ decoders = 2
    /\ \E i, j \in Calls :
          /\ i < j
          /\ out[i].closure = 1 /\ out[i].dec = 1
          /\ out[j].closure = 1 /\ out[j].dec = 2

\* C9: a successful Pump.Pump reports 2 channels and the decoder's sample
\* rate with a closure, a failed one reports a nil closure, 0 and 0 with
\* the error, and every buffer produce returns has 2 channels.
C9_StereoAndSampleRate ==
    /\ opens >= 1 =>
          IF lastOpen.err = "nil"
          THEN /\ lastOpen.numChannels = 2
               /\ lastOpen.sampleRate = rate
               /\ lastOpen.fn \in 1..Len(closures)
          ELSE /\ lastOpen.fn = 0
               /\ lastOpen.sampleRate = 0
               /\ lastOpen.numChannels = 0
    /\ \A i \in Calls : out[i].buf # Nil => Len(out[i].buf) = 2

C9_Witness ==
    /\ opens >= 1 /\ lastOpen.err = "nil" /\ lastOpen.sampleRate = 48000
    /\ \E i \in Calls : out[i].buf # Nil /\ Size(out[i].buf) >= 1

\* ===================================================== encode properties
\* The configuration the last Sink.Sink call ran with breaks one of the
\* ranges: CBR/ABR rate in [8,320], VBR quality in [0,9], channel mode one
\* of Mono, Stereo, JointStereo.
OpenedInvalid ==
    /\ sinkOpens >= 1
    /\ lastSink.fn # 0 \/ lastSink.err # "nil"
    /\ \/ SupportedBitRateMode(lastSink.mode) # "nil"
       \/ SupportedChannelMode(lastSink.cmode) # "nil"

\* C10 as claimed: Sink.Sink with a configuration out of range fails with
\* an error, and no LameWriter has been allocated.
C10_ValidatedBeforeAllocation ==
    OpenedInvalid => lastSink.err # "nil" /\ lastSink.fn = 0 /\ writers = 0

\* C10 as amended: Sink.Sink validates nothing.  Every call allocates a
\* LameWriter before anything else, and with any non-nil bit-rate mode, in
\* range or not, and any channel mode it configures that writer up to
\* InitParams and returns the consume closure with a nil error; only a nil
\* bit-rate mode stops it, by a panic, after the allocation.
C10_NoValidationInSink ==
    /\ writers = sinkOpens
    /\ Len(encs) = writers
    /\ w = writers
    /\ panicked => mode.tag = "nil" /\ sinkOpens >= 1
    /\ (sinkOpens >= 1 /\ ~panicked) =>
          /\ lastSink.err = "nil"
          /\ lastSink.fn = w
          /\ encs[w][Len(encs[w])] = <<"InitParams">>
          /\ encs[w][2][2] = lastSink.mode.val

C10_Witness ==
    /\ OpenedInvalid
    /\ SupportedBitRateMode(lastSink.mode) # "nil"
    /\ SupportedChannelMode(lastSink.cmode) # "nil"
    /\ lastSink.err = "nil"
    /\ writers = 2

\* The configuration the last Sink.Sink call ran with is inside every
\* range: CBR/ABR rate in [8,320] or VBR quality in [0,9], channel mode one
\* of Mono, Stereo, JointStereo, quality unset or in [0,9].
OpenedValid ==
    /\ sinkOpens >= 1
    /\ SupportedBitRateMode(lastSink.mode) = "nil"
    /\ SupportedChannelMode(lastSink.cmode) = "nil"
    /\ \/ lastSink.quality = <<>>
       \/ SupportedQuality(lastSink.quality[1]) = "nil"

\* C11: Sink.Sink on a configuration inside every range succeeds: it does
\* not panic, and returns a consume closure (over the LameWriter it has
\* just allocated and configured up to InitParams) with a nil error.
C11_ValidOpenSucceeds ==
    OpenedValid =>
        /\ ~panicked
        /\ lastSink.err = "nil"
        /\ lastSink.fn # 0
        /\ lastSink.fn = w
        /\ encs[w][Len(encs[w])] = <<"InitParams">>

C11_Witness ==
    /\ OpenedValid
    /\ lastSink.mode = [tag |-> "ABR", val |-> MinBitRate]
    /\ lastSink.cmode = Mono
    /\ lastSink.quality = <<9>>
    /\ lastSink.err = "nil" /\ lastSink.fn = 2

SinkCalls == 1..Len(sunk)

\* The calls made on LameWriter i for the k-th consume or Flush call.
WriterCallsOf(i, k) == {j \in 1..Len(wcalls[i]) : wcalls[i][j].call = k}

\* C12 as claimed: a Flush after an earlier Flush returns ErrClosedStream,
\* and no LameWriter is ever closed more than once.
C12_SecondFlushRejected ==
    /\ \A k \in SinkCalls :
          (sunk[k].op = "flush" /\ sunk[k].closes >= 1) =>
              sunk[k].err = "ErrClosedStream"
    /\ \A i \in 1..Len(wcalls) : Closes(i) <= 1

\* C12 as amended: Flush keeps no closed state.  Every Flush call on an
\* opened Sink, the first or a later one, calls Close on the LameWriter once
\* and returns what Close returned; ErrClosedStream is never returned.
C12_EveryFlushCloses ==
    \A k \in SinkCalls :
        sunk[k].op = "flush" =>
            /\ Cardinality(WriterCallsOf(sunk[k].w, k)) = 1
            /\ \A j \in WriterCallsOf(sunk[k].w, k) :
                  /\ wcalls[sunk[k].w][j].op = "Close"
                  /\ wcalls[sunk[k].w][j].err = sunk[k].err
            /\ Cardinality({j \in 1..k : sunk[j].op = "flush"})
                   = sunk[k].closes + 1
            /\ sunk[k].err \in WriterErrors

C12_Witness ==
    \E k \in SinkCalls :
        /\ sunk[k].op = "flush" /\ sunk[k].closes = 1 /\ sunk[k].err = "nil"
        /\ Closes(w) = 2

\* C13 as claimed: a consume call after Flush returns ErrClosedStream and
\* makes no call on the closed LameWriter.
C13_ConsumeAfterFlushRejected ==
    \A k \in SinkCalls :
        (sunk[k].op = "consume" /\ sunk[k].closes >= 1) =>
            /\ sunk[k].err = "ErrClosedStream"
            /\ WriterCallsOf(sunk[k].w, k) = {}

\* C13 as amended: the consume closure does not look at whether Flush was
\* called.  A consume call after Flush converts its buffer and calls Write
\* on the closed LameWriter as before, and returns what Write returned;
\* ErrClosedStream is never returned.
C13_ConsumeAfterFlushWrites ==
    \A k \in SinkCalls :
        (sunk[k].op = "consume" /\ sunk[k].closes >= 1) =>
            /\ Cardinality(WriterCallsOf(sunk[k].w, k)) = 1
            /\ \A j \in WriterCallsOf(sunk[k].w, k) :
                  /\ wcalls[sunk[k].w][j].op = "Write"
                  /\ wcalls[sunk[k].w][j].bytes = BinaryWrite(sunk[k].ints)
                  /\ wcalls[sunk[k].w][j].err = sunk[k].err
                  /\ \E i \in 1..(j - 1) : wcalls[sunk[k].w][i].op = "Close"
            /\ sunk[k].err \in WriterErrors

C13_Witness ==
    \E k \in SinkCalls :
        /\ sunk[k].op = "consume" /\ sunk[k].closes >= 1
        /\ sunk[k].err = "nil" /\ Len(sunk[k].ints) >= 2

\* C14 as claimed: Flush on a Sink on which Sink.Sink was never called
\* returns an error; it does not crash on the nil LameWriter.
C14_UnopenedFlushIsError ==
    sinkOpens = 0 => ~panicked /\ Len(sunk) = 0

\* ================================================ configuration properties
Checks == 1..Len(checks)

\* C15: Supported.ChannelMode(v) returns nil exactly when v is Mono, Stereo
\* or JointStereo, and an error for every other value.
C15_ChannelModeValidIffEnumerated ==
    \A k \in Checks :
        checks[k].fn = "ChannelMode" =>
            (checks[k].res = "nil"
                <=> checks[k].arg \in {Mono, Stereo, JointStereo})

C15_Witness ==
    \E j, k \in Checks :
        /\ checks[j].fn = "ChannelMode" /\ checks[j].arg = 1000
        /\ checks[j].res # "nil"
        /\ checks[k].fn = "ChannelMode" /\ checks[k].arg = JointStereo
        /\ checks[k].res = "nil"

QualityReachedEncoder(q) ==
    /\ sinkOpens >= 1 /\ ~panicked
    /\ lastSink.quality = <<q>>
    /\ \E i \in 1..Len(encs[w]) : encs[w][i] = <<"SetQuality", q>>

\* C17 as claimed: one policy at every call site.  A quality that
\* Supported.Quality rejects is not accepted by SetQuality and Sink.Sink:
\* it does not reach the encoder through a successful Sink.Sink.
C17_OneQualityPolicy ==
    \A k \in Checks :
        (checks[k].fn = "Quality" /\ checks[k].res # "nil") =>
            ~(QualityReachedEncoder(checks[k].arg) /\ lastSink.err = "nil")

\* C17 as amended: only Supported.Quality guards the range: it returns nil
\* exactly for [0,9].  SetQuality stores and Sink.Sink hands to the encoder
\* whatever value was given, in range or not, and Sink.Sink succeeds; with
\* no quality set the encoder's SetQuality is not called.
C17_QualityGuardOnlyInValidator ==
    /\ \A k \in Checks :
          checks[k].fn = "Quality" =>
              (checks[k].res = "nil" <=> checks[k].arg \in 0..9)
    /\ (sinkOpens >= 1 /\ ~panicked) =>
          /\ lastSink.err = "nil"
          /\ lastSink.quality # <<>> =>
                QualityReachedEncoder(lastSink.quality[1])
          /\ lastSink.quality = <<>> =>
                \A i \in 1..Len(encs[w]) : encs[w][i][1] # "SetQuality"

C17_Witness ==
    /\ QualityReachedEncoder(10)
    /\ lastSink.err = "nil"
    /\ \E j, k \in Checks :
          /\ checks[j].fn = "Quality" /\ checks[j].arg = 10
          /\ checks[j].res # "nil"
          /\ checks[k].fn = "Quality" /\ checks[k].arg = 9
          /\ checks[k].res = "nil"

\* ======================================================= consume properties
\* The int16 the LameWriter received as the i-th sample of Write call j.
Written(wr, j, i) ==
    Int16LE(wcalls[wr][j].bytes[2 * i - 1], wcalls[wr][j].bytes[2 * i])

\* C18 as claimed: every sample of at least +1.0 is written as 32767, every
\* sample of at most -1.0 as -32768: the narrowing to int16 never wraps.
C18_ClampedNarrowing ==
    \A k \in SinkCalls :
        sunk[k].op = "consume" =>
            \A j \in WriterCallsOf(sunk[k].w, k) :
                \A i \in 1..(Len(sunk[k].buf) * Size(sunk[k].buf)) :
                    LET smp == Interleaved(sunk[k].buf)[i]
                    IN  /\ smp.num >= smp.den =>
                              Written(sunk[k].w, j, i) = 32767
                        /\ smp.num <= -smp.den =>
                              Written(sunk[k].w, j, i) = -32768

\* C19: every consume call on a buffer of f frames and c channels makes
\* exactly one Write on the LameWriter, of 2*f*c bytes: one signed 16-bit
\* little-endian value per sample, in frame-interleaved order (the low 16
\* bits of the sample times 32768, truncated, which for a sample inside
\* [-1, 1) is that number itself); the Writes reach the
\* LameWriter in the order of the consume calls; and the error of the Write
\* is returned as it is, after that single Write.
C19_OneWritePerBuffer ==
    /\ \A k \in SinkCalls :
          sunk[k].op = "consume" =>
              /\ Cardinality(WriterCallsOf(sunk[k].w, k)) = 1
              /\ \A j \in WriterCallsOf(sunk[k].w, k) :
                    LET n == Len(sunk[k].buf) * Size(sunk[k].buf)
                        wc == wcalls[sunk[k].w][j]
                    IN  /\ wc.op = "Write"
                        /\ wc.err = sunk[k].err
                        /\ Len(wc.bytes) = 2 * n
                        /\ \A i \in 1..n :
                              LET smp == Interleaved(sunk[k].buf)[i]
                              IN  /\ Written(sunk[k].w, j, i)
                                       = Int16(Trunc(smp.num * 32768, smp.den))
                                  /\ (-smp.den <= smp.num /\ smp.num < smp.den)
                                     => Written(sunk[k].w, j, i)
                                          = Trunc(smp.num * 32768, smp.den)
    /\ \A i \in 1..Len(wcalls) :
          \A j1, j2 \in 1..Len(wcalls[i]) :
              j1 < j2 => wcalls[i][j1].call < wcalls[i][j2].call

C19_Witness ==
    \E j, k \in SinkCalls :
        /\ j < k
        /\ sunk[j].op = "consume" /\ sunk[j].err = "nil"
        /\ Len(sunk[j].buf) = 2 /\ Size(sunk[j].buf) = 2
        /\ sunk[k].op = "consume" /\ sunk[k].err = "write failed"
        /\ Size(sunk[k].buf) >= 1
        /\ sunk[k].buf # sunk[j].buf

\* ======================================================= scratch buffers
\* consume calls among the first k consume and Flush calls
ConsumesUpTo(k) == Cardinality({j \in 1..k : sunk[j].op = "consume"})

\* C20 as claimed: a produce or consume call whose frame count is that of
\* the call before allocates nothing.
C20_NoAllocationOnSameSize ==
    /\ \A i \in Calls :
          (i > 1 /\ out[i].target = out[i - 1].target) =>
              out[i].makes = out[i - 1].makes
    /\ \A k \in SinkCalls :
          (/\ k > 1
           /\ sunk[k].op = "consume" /\ sunk[k - 1].op = "consume"
           /\ Size(sunk[k].buf) = Size(sunk[k - 1].buf)) =>
              sunk[k].news = sunk[k - 1].news

\* C20 as amended: the adapters keep no scratch buffer.  Every produce call
\* makes a new ints slice and every consume call a new bytes.Buffer,
\* whatever the frame count of the call before: the allocations so far are
\* as many as the calls so far.
C20_FreshBufferPerCall ==
    /\ makes = Len(out)
    /\ \A i \in Calls : out[i].makes = i
    /\ news = ConsumesUpTo(Len(sunk))
    /\ \A k \in SinkCalls :
          sunk[k].op = "consume" => sunk[k].news = ConsumesUpTo(k)

C20_Witness ==
    /\ \E i \in Calls :
          /\ i > 1
          /\ out[i].buf # Nil /\ out[i - 1].buf # Nil
          /\ Size(out[i].buf) = Size(out[i - 1].buf)
          /\ out[i].makes = out[i - 1].makes + 1
    /\ \E k \in SinkCalls :
          /\ k > 1
          /\ sunk[k].op = "consume" /\ sunk[k - 1].op = "consume"
          /\ Size(sunk[k].buf) = Size(sunk[k - 1].buf)
          /\ Size(sunk[k].buf) >= 1
          /\ sunk[k].news = sunk[k - 1].news + 1

\* =================================================== encoder configuration
\* The positions in the call log of encoder i at which fn was called.
EncCalls(i, fn) == {j \in 1..Len(encs[i]) : encs[i][j][1] = fn}

\* C21: a Sink.Sink call on a Sink whose quality was never set makes no
\* SetQuality call on the encoder; on a Sink whose quality was set, once or
\* several times, it makes exactly one, with the quality the Sink holds,
\* which is that of the last Sink.SetQuality call.
C21_QualityOnlyWhenSet ==
    /\ \A i \in 1..Len(encs) : Cardinality(EncCalls(i, "SetQuality")) <= 1
    /\ (sinkOpens >= 1 /\ ~panicked) =>
          /\ lastSink.quality = <<>> => EncCalls(w, "SetQuality") = {}
          /\ lastSink.quality # <<>> =>
                /\ Cardinality(EncCalls(w, "SetQuality")) = 1
                /\ \A j \in EncCalls(w, "SetQuality") :
                      encs[w][j] = <<"SetQuality", lastSink.quality[1]>>
    /\ \A i \in 1..Len(encs) :
          quality = <<>> => EncCalls(i, "SetQuality") = {}

C21_Witness ==
    /\ sinkOpens = 2 /\ ~panicked
    /\ \E j \in EncCalls(1, "SetQuality") : encs[1][j][2] = 0
    /\ \E j \in EncCalls(2, "SetQuality") : encs[2][j][2] = 9
    /\ lastSink.quality = <<9>>

\* The encoder calls that belong to a bit-rate mode.
IsBitRateCall(e) ==
    e[1] \in {"SetVBR", "SetBitrate", "SetVBRAverageBitRate", "SetVBRQuality"}

\* What a bit-rate mode must set, and nothing else.
CompleteVariant(m) ==
    CASE m.tag = "CBR" -> <<<<"SetVBR", "VBR_OFF">>, <<"SetBitrate", m.val>>>>
      [] m.tag = "ABR" -> <<<<"SetVBR", "VBR_ABR">>,
                            <<"SetVBRAverageBitRate", m.val>>>>
      [] m.tag = "VBR" -> <<<<"SetVBR", "VBR_MTRH">>,
                            <<"SetVBRQuality", m.val>>>>
      [] OTHER -> <<>>

InitParamsLast(i) ==
    /\ Cardinality(EncCalls(i, "InitParams")) = 1
    /\ encs[i][Len(encs[i])] = <<"InitParams">>

\* The calls every session makes before InitParams: the bit-rate mode, the
\* quality when one was set, the sample rate and the channel count.
ConfiguredBeforeInit(i) ==
    /\ SelectSeq(encs[i], IsBitRateCall) = CompleteVariant(mode)
    /\ Cardinality(EncCalls(i, "SetQuality")) =
          (IF lastSink.quality = <<>> THEN 0 ELSE 1)
    /\ Cardinality(EncCalls(i, "SetInSamplerate")) = 1
    /\ Cardinality(EncCalls(i, "SetNumChannels")) = 1

\* C23 as claimed: every session has its bit-rate mode, quality if any,
\* channel mode, sample rate and channel count set before its one
\* InitParams; no Write comes before InitParams and nothing is configured
\* after it.
C23_ConfiguredOnceInOrder ==
    /\ \A i \in 1..Len(encs) :
          encs[i] # <<>> =>
              /\ InitParamsLast(i)
              /\ ConfiguredBeforeInit(i)
              /\ Cardinality(EncCalls(i, "SetMode")) = 1
    /\ \A i \in 1..Len(wcalls) : wcalls[i] # <<>> => encs[i] # <<>>

\* C23 as amended: as claimed, but for the channel mode: setChannelMode has
\* no default case, so SetMode is called (once, before InitParams) only for
\* Mono, Stereo and JointStereo; with any other ChannelMode value the
\* session is opened and written to with no channel mode set.
C23_ConfiguredOnceChannelModeIfKnown ==
    /\ \A i \in 1..Len(encs) :
          encs[i] # <<>> =>
              /\ InitParamsLast(i)
              /\ ConfiguredBeforeInit(i)
              /\ Cardinality(EncCalls(i, "SetMode")) =
                    (IF cmode \in {Mono, Stereo, JointStereo} THEN 1 ELSE 0)
    /\ \A i \in 1..Len(wcalls) : wcalls[i] # <<>> => encs[i] # <<>>

C23_Witness ==
    /\ sinkOpens = 1 /\ ~panicked
    /\ cmode = 3
    /\ lastSink.quality = <<9>>
    /\ EncCalls(1, "SetMode") = {}
    /\ InitParamsLast(1)
    /\ \E k, l \in SinkCalls :
          /\ k < l
          /\ sunk[k].op = "consume" /\ sunk[l].op = "flush"
    /\ \E j \in 1..Len(wcalls[1]) : wcalls[1][j].op = "Write"

\* ================================================== produce, the edge cases
\* C24 as claimed: with a target of 0 frames a produce call returns io.EOF
\* and a nil buffer without reading the decoder; with a target of n >= 1
\* frames it returns after at most 2n + 1 reads.
C24_ZeroTargetIsEndOfStream ==
    \A i \in Calls :
        /\ out[i].target = 0 =>
              /\ out[i].err = "io.EOF"
              /\ out[i].buf = Nil
              /\ out[i].reads = 0
        /\ out[i].target >= 1 => out[i].reads <= 2 * out[i].target + 1

\* The decoder's samples (by index) that produce call i read and dropped.
Discarded(i) ==
    ((out[i].from \div 2) + 1)..((out[i].from \div 2) + out[i].obtained)

\* C25: a produce call in which the decoder fails with an error other than
\* io.EOF after k > 0 samples returns a nil buffer and that error, and the k
\* samples are in no buffer of any call: later calls start behind them.
C25_SamplesBeforeErrorDiscarded ==
    \A i \in Calls :
        (out[i].decErr \notin {"nil", "io.EOF"} /\ out[i].obtained > 0) =>
            /\ out[i].buf = Nil
            /\ out[i].err = out[i].decErr
            /\ \A j \in Calls :
                  /\ j > i => out[j].from >= out[i].from + 2 * out[i].obtained
                  /\ \A m \in 1..Len(Interleaved(out[j].buf)) :
                        \A x \in Discarded(i) :
                            Interleaved(out[j].buf)[m] # ExpectedSample(x)

C25_Witness ==
    \E i, j \in Calls :
        /\ i < j
        /\ out[i].decErr \notin {"nil", "io.EOF"} /\ out[i].obtained >= 2
        /\ out[j].buf # Nil /\ Size(out[j].buf) >= 1

====
